---- MODULE Spec2Model ----
(***************************************************************************)
(* Model of the sequential-thinking MCP server: the ThoughtData validation *)
(* (models_fixed.py), the ThinkingSession state and the think tool handler *)
(* call_tool / _process_thought / _handle_revision and the resource reader *)
(* read_resource with ThinkingSession.get_summary (server.py).             *)
(*                                                                         *)
(* Python values are represented as follows.                               *)
(*   Optional[T]   a sequence of length <= 1: <<>> is None, <<v>> is v.    *)
(*   dict          a function whose DOMAIN is the set of keys present.     *)
(*   list          a sequence.                                             *)
(* The arguments of a tool call are a dict: a key may be omitted, given    *)
(* as null (<<>>) or given a value (<<v>>).                                *)
(*                                                                         *)
(* Time is a counter that advances by one with every think call, so that   *)
(* updated_at tells the calls apart. The order of the keys of              *)
(* session.branches is not modelled. previous and regular_run are history  *)
(* variables: the handler neither reads them nor depends on them.          *)
(*                                                                         *)
(* The console is the environment of the server: a print of a thought may  *)
(* raise (stderr closed, or an encoding that has no emoji), which is an    *)
(* input of call_tool. The print of an error panel is taken to succeed.    *)
(* A URI is represented by the list uri.split("/") of its segments.        *)
(***************************************************************************)
EXTENDS Integers, Sequences, FiniteSets, TLC

VARIABLES
    session,      \* the server's ThinkingSession
    now,          \* the clock read by datetime.now()
    arguments,    \* the arguments of the latest think call
    result,       \* what the latest think call returned
    reply,        \* what the latest read_resource returned, if no think call
                  \* came after it
    disable_thought_logging,   \* DISABLE_THOUGHT_LOGGING as __init__ read it
    previous,     \* history: the session as the latest think call found it
    regular_run,  \* history: the thoughts submitted so far, for as long as
                  \* every call since construction was an accepted regular thought
    event_loop,   \* the asyncio event loop: the handler tasks of the requests
                  \* in flight and the task that runs
    fastmcp       \* the server of server_fastmcp.py: its session, what its
                  \* latest think returned and the number of its think calls

vars == <<session, now, arguments, result, reply, disable_thought_logging,
          previous, regular_run, event_loop, fastmcp>>

(***************************************************************************)
(* Bounds of the model.                                                    *)
(***************************************************************************)
\* number of tool calls made in one behaviour of Spec
MaxCalls == 3
\* largest integer a caller passes for thoughtNumber, totalThoughts,
\* revisesThought and branchFromThought in GateSpec
MaxNum == 2
\* number of tool calls made in one behaviour of OrphanSpec
MaxOrphanCalls == 4
\* number of requests in flight in one behaviour of AsyncSpec
MaxTasks == 3

(***************************************************************************)
(* Python helpers.                                                         *)
(***************************************************************************)
None == <<>>

Some(v) == <<v>>

\* dict.get(key) on the arguments: None when the key is omitted
Get(d, k) == IF k \in DOMAIN d THEN d[k] ELSE None

\* truthiness of an Optional[str] / Optional[int] / Optional[bool]
TruthyStr(o) == o # None /\ o[1] # ""

TruthyInt(o) == o # None /\ o[1] # 0

TruthyBool(o) == o # None /\ o[1]

\* the dict with the keys of the record s whose setting is not Absent
Absent == <<>>

Given(o) == <<o>>

Args(s) == [k \in {f \in DOMAIN s : s[f] # Absent} |-> s[k][1]]

\* str.split("/") of the branch identifiers of the model
split(id) == IF id = "X/Y" THEN <<"X", "Y">> ELSE <<id>>

\* list[-1]
last(list) == list[Len(list)]

(***************************************************************************)
(* ThoughtData: the fields, their aliases and the pydantic validation.     *)
(***************************************************************************)
FieldAliases ==
    {"thought", "thoughtNumber", "totalThoughts", "nextThoughtNeeded",
     "isRevision", "revisesThought", "branchFromThought", "branchId",
     "needsMoreThoughts"}

Err(loc, type) == [loc |-> loc, type |-> type]

\* thought: str, required, min_length=1
thought_errors(a) ==
    IF "thought" \notin DOMAIN a THEN <<Err("thought", "missing")>>
    ELSE IF a["thought"] = None THEN <<Err("thought", "string_type")>>
    ELSE IF Len(a["thought"][1]) < 1 THEN <<Err("thought", "string_too_short")>>
    ELSE <<>>

\* thought_number: int, required, ge=1
thought_number_errors(a) ==
    IF "thoughtNumber" \notin DOMAIN a THEN <<Err("thoughtNumber", "missing")>>
    ELSE IF a["thoughtNumber"] = None THEN <<Err("thoughtNumber", "int_type")>>
    ELSE IF ~(a["thoughtNumber"][1] >= 1)
         THEN <<Err("thoughtNumber", "greater_than_equal")>>
    ELSE <<>>

\* info.data.get("thought_number"): a field that failed validation is not in
\* info.data
data_thought_number(a) ==
    IF thought_number_errors(a) = <<>> THEN a["thoughtNumber"] ELSE None

\* mutant: the comparison with thought_number left out
validate_total_thoughts_unchecked(v, thought_number) == <<>>

\* mutant: total_thoughts must exceed thought_number
validate_total_thoughts_strict(v, thought_number) ==
    IF thought_number # None /\ v <= thought_number[1]
    THEN <<Err("totalThoughts", "value_error")>>
    ELSE <<>>

\* total_thoughts: int, required, ge=1, then validate_total_thoughts
validate_total_thoughts(v, thought_number) ==
    IF thought_number # None /\ v < thought_number[1]
    THEN <<Err("totalThoughts", "value_error")>>
    ELSE <<>>

total_thoughts_errors(a) ==
    IF "totalThoughts" \notin DOMAIN a THEN <<Err("totalThoughts", "missing")>>
    ELSE IF a["totalThoughts"] = None THEN <<Err("totalThoughts", "int_type")>>
    ELSE IF ~(a["totalThoughts"][1] >= 1)
         THEN <<Err("totalThoughts", "greater_than_equal")>>
    ELSE validate_total_thoughts(a["totalThoughts"][1], data_thought_number(a))

\* next_thought_needed: bool, required
next_thought_needed_errors(a) ==
    IF "nextThoughtNeeded" \notin DOMAIN a
    THEN <<Err("nextThoughtNeeded", "missing")>>
    ELSE IF a["nextThoughtNeeded"] = None
    THEN <<Err("nextThoughtNeeded", "bool_type")>>
    ELSE <<>>

\* info.data.get("is_revision"): Optional[bool], default None
data_is_revision(a) == Get(a, "isRevision")

\* mutant: only the "must be set" half of the check
validate_revises_thought_one_way(v, is_revision) ==
    IF TruthyBool(is_revision) /\ v = None
    THEN <<Err("revisesThought", "value_error")>>
    ELSE <<>>

\* revises_thought: Optional[int], default None, ge=1, then
\* validate_revises_thought. A field validator runs on a value that was
\* passed (null included), never on the default of an omitted key.
validate_revises_thought(v, is_revision) ==
    IF v # None /\ ~TruthyBool(is_revision)
    THEN <<Err("revisesThought", "value_error")>>
    ELSE IF TruthyBool(is_revision) /\ v = None
    THEN <<Err("revisesThought", "value_error")>>
    ELSE <<>>

revises_thought_errors(a) ==
    IF "revisesThought" \notin DOMAIN a THEN <<>>
    ELSE IF a["revisesThought"] # None /\ ~(a["revisesThought"][1] >= 1)
    THEN <<Err("revisesThought", "greater_than_equal")>>
    ELSE validate_revises_thought(a["revisesThought"], data_is_revision(a))

\* branch_from_thought: Optional[int], default None, ge=1
branch_from_thought_errors(a) ==
    IF "branchFromThought" \notin DOMAIN a THEN <<>>
    ELSE IF a["branchFromThought"] # None /\ ~(a["branchFromThought"][1] >= 1)
    THEN <<Err("branchFromThought", "greater_than_equal")>>
    ELSE <<>>

data_branch_from_thought(a) ==
    IF branch_from_thought_errors(a) = <<>>
    THEN Get(a, "branchFromThought")
    ELSE None

\* mutant: a branch_id is accepted without a branch_from_thought
validate_branch_id_unchecked(v, branch_from_thought) == <<>>

\* branch_id: Optional[str], default None, then validate_branch_id
validate_branch_id(v, branch_from_thought) ==
    IF v # None /\ branch_from_thought = None
    THEN <<Err("branchId", "value_error")>>
    ELSE <<>>

branch_id_errors(a) ==
    IF "branchId" \notin DOMAIN a THEN <<>>
    ELSE validate_branch_id(a["branchId"], data_branch_from_thought(a))

\* mutant: "extra": "ignore"
extra_errors_ignored(a) == <<>>

\* model_config "extra": "forbid". The calls of the model name the fields by
\* their aliases, so the field names that populate_by_name also admits do
\* not occur.
extra_errors(a) ==
    IF DOMAIN a \subseteq FieldAliases THEN <<>>
    ELSE <<Err("extra", "extra_forbidden")>>

\* mutant: validation stops at the first field in error
ValidationErrors_fail_fast(a) ==
    LET all == thought_errors(a) \o thought_number_errors(a)
               \o total_thoughts_errors(a) \o next_thought_needed_errors(a)
               \o revises_thought_errors(a) \o branch_from_thought_errors(a)
               \o branch_id_errors(a) \o extra_errors(a)
    IN  IF all = <<>> THEN <<>> ELSE <<all[1]>>

\* the errors of ThoughtData(**a), in field order; <<>> when a is accepted
ValidationErrors(a) ==
    thought_errors(a) \o thought_number_errors(a) \o total_thoughts_errors(a)
    \o next_thought_needed_errors(a) \o revises_thought_errors(a)
    \o branch_from_thought_errors(a) \o branch_id_errors(a) \o extra_errors(a)

\* the ThoughtData built from accepted arguments
ThoughtData(a) ==
    [thought |-> a["thought"][1],
     thought_number |-> a["thoughtNumber"][1],
     total_thoughts |-> a["totalThoughts"][1],
     next_thought_needed |-> a["nextThoughtNeeded"][1],
     is_revision |-> Get(a, "isRevision"),
     revises_thought |-> Get(a, "revisesThought"),
     branch_from_thought |-> Get(a, "branchFromThought"),
     branch_id |-> Get(a, "branchId"),
     needs_more_thoughts |-> Get(a, "needsMoreThoughts")]

\* ThoughtData.to_display_dict
to_display_dict(thought_data) ==
    [thought |-> thought_data.thought,
     thoughtNumber |-> thought_data.thought_number,
     totalThoughts |-> thought_data.total_thoughts,
     nextThoughtNeeded |-> thought_data.next_thought_needed,
     isRevision |-> thought_data.is_revision,
     revisesThought |-> thought_data.revises_thought,
     branchFromThought |-> thought_data.branch_from_thought,
     branchId |-> thought_data.branch_id,
     needsMoreThoughts |-> thought_data.needs_more_thoughts]

(***************************************************************************)
(* ThinkingSession.get_summary.                                            *)
(***************************************************************************)
\* sum(1 for thought in thoughts if thought.is_revision)
RECURSIVE count_revisions(_)
count_revisions(thoughts) ==
    IF thoughts = <<>> THEN 0
    ELSE (IF TruthyBool(thoughts[1].is_revision) THEN 1 ELSE 0)
         + count_revisions(Tail(thoughts))

\* the loop "for branch_thoughts in branches.values(): total += len(...)"
\* over the branches of keys
RECURSIVE add_lengths(_, _)
add_lengths(branches, keys) ==
    IF keys = {} THEN 0
    ELSE LET k == CHOOSE key \in keys : TRUE
         IN  Len(branches[k]) + add_lengths(branches, keys \ {k})

\* the loop "for branch_thoughts in branches.values(): revisions_count +=
\* sum(...)" over the branches of keys
RECURSIVE add_revisions(_, _)
add_revisions(branches, keys) ==
    IF keys = {} THEN 0
    ELSE LET k == CHOOSE key \in keys : TRUE
         IN  count_revisions(branches[k]) + add_revisions(branches, keys \ {k})

\* mutant: the branches are left out of the total
summary_total_thoughts_main_only(s) == Len(s.main_thoughts)

summary_total_thoughts(s) ==
    Len(s.main_thoughts) + add_lengths(s.branches, DOMAIN s.branches)

\* mutant: the revisions of the branches are left out
summary_revisions_count_main_only(s) == count_revisions(s.main_thoughts)

summary_revisions_count(s) ==
    count_revisions(s.main_thoughts) + add_revisions(s.branches, DOMAIN s.branches)

\* mutant: a session with a main thought is complete
summary_is_complete_nonempty(s) == s.main_thoughts # <<>>

\* bool(main_thoughts and not main_thoughts[-1].next_thought_needed)
summary_is_complete(s) ==
    s.main_thoughts # <<>> /\ ~last(s.main_thoughts).next_thought_needed

\* mutant: the last record of a branch is reported when there is a branch
summary_last_thought_of_branch(s) ==
    IF DOMAIN s.branches # {}
    THEN Some(last(s.branches[CHOOSE k \in DOMAIN s.branches : TRUE]))
    ELSE IF s.main_thoughts # <<>> THEN Some(last(s.main_thoughts)) ELSE None

\* mutant: the first main thought is reported
summary_last_thought_first(s) ==
    IF s.main_thoughts # <<>> THEN Some(s.main_thoughts[1]) ELSE None

summary_last_thought(s) ==
    IF s.main_thoughts # <<>> THEN Some(last(s.main_thoughts)) ELSE None

\* the ThoughtSummary; branches is the set of the keys, their order is not
\* modelled
get_summary(s) ==
    [total_thoughts |-> summary_total_thoughts(s),
     main_branch_thoughts |-> Len(s.main_thoughts),
     branches |-> DOMAIN s.branches,
     revisions_count |-> summary_revisions_count(s),
     is_complete |-> summary_is_complete(s),
     last_thought |-> summary_last_thought(s)]

(***************************************************************************)
(* The thought router.                                                     *)
(***************************************************************************)
\* mutant: insert at the front
append_front(list, x) == <<x>> \o list

\* list.append
append(list, x) == Append(list, x)

\* list[:n]
slice_to(list, n) == SubSeq(list, 1, IF n < Len(list) THEN n ELSE Len(list))

\* mutant: the revised slot is overwritten, the later thoughts are kept
_handle_revision_keep_tail(main_thoughts, thought_data) ==
    IF TruthyInt(thought_data.revises_thought)
       /\ thought_data.revises_thought[1] <= Len(main_thoughts)
    THEN [main_thoughts EXCEPT ![thought_data.revises_thought[1]] = thought_data]
    ELSE Append(main_thoughts, thought_data)

\* mutant: every slot up to the revised one is overwritten
_handle_revision_fill(main_thoughts, thought_data) ==
    IF TruthyInt(thought_data.revises_thought)
       /\ thought_data.revises_thought[1] <= Len(main_thoughts)
    THEN [i \in 1..thought_data.revises_thought[1] |-> thought_data]
    ELSE Append(main_thoughts, thought_data)

\* mutant: a revision target beyond the end is dropped
_handle_revision_strict(main_thoughts, thought_data) ==
    IF TruthyInt(thought_data.revises_thought)
       /\ thought_data.revises_thought[1] <= Len(main_thoughts)
    THEN SubSeq([main_thoughts EXCEPT ![thought_data.revises_thought[1]] = thought_data],
                1, thought_data.revises_thought[1])
    ELSE main_thoughts

_handle_revision(main_thoughts, thought_data) ==
    IF TruthyInt(thought_data.revises_thought)
       /\ thought_data.revises_thought[1] <= Len(main_thoughts)
    THEN LET revision_index == thought_data.revises_thought[1] - 1
             replaced == [main_thoughts EXCEPT ![revision_index + 1] = thought_data]
         IN  slice_to(replaced, revision_index + 1)
    ELSE append(main_thoughts, thought_data)

\* mutant: the branch test asks whether the two fields are set
is_branch_thought_by_presence(thought_data) ==
    thought_data.branch_id # None /\ thought_data.branch_from_thought # None

\* the branch test of _process_thought
is_branch_thought(thought_data) ==
    TruthyStr(thought_data.branch_id) /\ TruthyInt(thought_data.branch_from_thought)

\* the revision test of _process_thought
is_revision_thought(thought_data) ==
    TruthyBool(thought_data.is_revision) /\ TruthyInt(thought_data.revises_thought)

\* branches[key].append(thought_data), the list created when the key is new
dict_append(branches, key, thought_data) ==
    LET created == IF key \notin DOMAIN branches
                   THEN [k \in DOMAIN branches \cup {key} |->
                            IF k = key THEN <<>> ELSE branches[k]]
                   ELSE branches
    IN  [created EXCEPT ![key] = append(created[key], thought_data)]

\* mutant: the thought that creates the list is not appended to it
branch_append_create_only(branches, thought_data) ==
    IF thought_data.branch_id[1] \notin DOMAIN branches
    THEN [k \in DOMAIN branches \cup {thought_data.branch_id[1]} |->
             IF k = thought_data.branch_id[1] THEN <<>> ELSE branches[k]]
    ELSE dict_append(branches, thought_data.branch_id[1], thought_data)

\* mutant: the branch list is created anew on every branch thought
branch_append_reset(branches, thought_data) ==
    [k \in DOMAIN branches \cup {thought_data.branch_id[1]} |->
        IF k = thought_data.branch_id[1] THEN <<thought_data>> ELSE branches[k]]

\* session.branches after the branch arm of _process_thought
branch_append(branches, thought_data) ==
    dict_append(branches, thought_data.branch_id[1], thought_data)

\* mutant: a branch thought is also appended to the main sequence
_process_thought_branch_in_main(s, thought_data) ==
    IF is_branch_thought(thought_data)
    THEN [s EXCEPT !.branches = branch_append(s.branches, thought_data),
                   !.main_thoughts = Append(s.main_thoughts, thought_data)]
    ELSE IF is_revision_thought(thought_data)
    THEN [s EXCEPT !.main_thoughts = _handle_revision(s.main_thoughts, thought_data)]
    ELSE [s EXCEPT !.main_thoughts = Append(s.main_thoughts, thought_data)]

\* mutant: the revision test comes before the branch test
_process_thought_revision_first(s, thought_data) ==
    IF is_revision_thought(thought_data)
    THEN [s EXCEPT !.main_thoughts = _handle_revision(s.main_thoughts, thought_data)]
    ELSE IF is_branch_thought(thought_data)
    THEN [s EXCEPT !.branches = branch_append(s.branches, thought_data)]
    ELSE [s EXCEPT !.main_thoughts = Append(s.main_thoughts, thought_data)]

\* mutant: branch_from_thought alone makes a branch thought, keyed by
\* str(branch_id)
_process_thought_by_origin(s, thought_data) ==
    IF TruthyInt(thought_data.branch_from_thought)
    THEN [s EXCEPT !.branches =
             dict_append(s.branches,
                         IF thought_data.branch_id = None THEN "None"
                         ELSE thought_data.branch_id[1],
                         thought_data)]
    ELSE IF is_revision_thought(thought_data)
    THEN [s EXCEPT !.main_thoughts = _handle_revision(s.main_thoughts, thought_data)]
    ELSE [s EXCEPT !.main_thoughts = Append(s.main_thoughts, thought_data)]

\* mutant: a regular thought is inserted at the position its thought_number
\* names, when the main sequence has one
_process_thought_by_number(s, thought_data) ==
    IF is_branch_thought(thought_data)
    THEN [s EXCEPT !.branches = branch_append(s.branches, thought_data)]
    ELSE IF is_revision_thought(thought_data)
    THEN [s EXCEPT !.main_thoughts = _handle_revision(s.main_thoughts, thought_data)]
    ELSE IF thought_data.thought_number <= Len(s.main_thoughts)
    THEN [s EXCEPT !.main_thoughts =
             SubSeq(s.main_thoughts, 1, thought_data.thought_number - 1)
             \o <<thought_data>>
             \o SubSeq(s.main_thoughts, thought_data.thought_number,
                       Len(s.main_thoughts))]
    ELSE [s EXCEPT !.main_thoughts = append(s.main_thoughts, thought_data)]

\* mutant: a revision also deletes the branches that began at a position
\* beyond the new end of the main sequence
_process_thought_prune_branches(s, thought_data) ==
    IF is_branch_thought(thought_data)
    THEN [s EXCEPT !.branches = branch_append(s.branches, thought_data)]
    ELSE IF is_revision_thought(thought_data)
    THEN LET main == _handle_revision(s.main_thoughts, thought_data)
             kept == {k \in DOMAIN s.branches :
                         s.branches[k][1].branch_from_thought[1] <= Len(main)}
         IN  [s EXCEPT !.main_thoughts = main,
                       !.branches = [k \in kept |-> s.branches[k]]]
    ELSE [s EXCEPT !.main_thoughts = append(s.main_thoughts, thought_data)]

\* the session after _process_thought(thought_data)
_process_thought(s, thought_data) ==
    IF is_branch_thought(thought_data)
    THEN [s EXCEPT !.branches = branch_append(s.branches, thought_data)]
    ELSE IF is_revision_thought(thought_data)
    THEN [s EXCEPT !.main_thoughts = _handle_revision(s.main_thoughts, thought_data)]
    ELSE [s EXCEPT !.main_thoughts = append(s.main_thoughts, thought_data)]

(***************************************************************************)
(* The server.                                                             *)
(***************************************************************************)
NoResult == [kind |-> "none", isError |-> FALSE, errors |-> <<>>, processed |-> <<>>]

\* no resource has been read since the latest think call
NoReply == [kind |-> "none", uri |-> <<>>, contents |-> <<>>, found |-> <<>>]

\* asyncio.run(server.run()): no request has arrived, no handler runs
NoTasks == [tasks |-> <<>>, running |-> 0, finished |-> <<>>]

\* ThinkingSession(session_id=uuid4(), created_at=now(), updated_at=now())
NewSession ==
    [session_id |-> "uuid4", main_thoughts |-> <<>>,
     branches |-> [k \in {} |-> <<>>], created_at |-> 0, updated_at |-> 0]

\* SequentialThinkingServer.__init__: a fresh ThinkingSession;
\* DISABLE_THOUGHT_LOGGING is not set in the environment
Init ==
    /\ session = NewSession
    /\ previous = NewSession
    /\ now = 0
    /\ arguments = [k \in {} |-> <<>>]
    /\ result = NoResult
    /\ reply = NoReply
    /\ disable_thought_logging = FALSE
    /\ regular_run = [all_regular |-> TRUE, records |-> <<>>]
    /\ event_loop = NoTasks
    /\ fastmcp = [session |-> NewSession, result |-> NoResult, calls |-> 0]

\* SequentialThinkingServer.__init__ with DISABLE_THOUGHT_LOGGING set to
\* "true" or to anything else
ConsoleInit ==
    /\ session = NewSession
    /\ previous = NewSession
    /\ now = 0
    /\ arguments = [k \in {} |-> <<>>]
    /\ result = NoResult
    /\ reply = NoReply
    /\ disable_thought_logging \in BOOLEAN
    /\ regular_run = [all_regular |-> TRUE, records |-> <<>>]
    /\ event_loop = NoTasks
    /\ fastmcp = [session |-> NewSession, result |-> NoResult, calls |-> 0]

\* a thought with no revision field and no branch field
IsRegularInput(a) ==
    DOMAIN a \cap {"isRevision", "revisesThought", "branchFromThought", "branchId"} = {}

\* mutant: the timestamp is refreshed before the arguments are validated
call_tool_stamp_first(a, console_raises) ==
    /\ now' = now + 1
    /\ arguments' = a
    /\ previous' = session
    /\ reply' = NoReply
    /\ UNCHANGED <<disable_thought_logging, event_loop, fastmcp>>
    /\ IF ValidationErrors(a) = <<>>
       THEN LET thought_data == ThoughtData(a)
                processed == _process_thought(session, thought_data)
            IN  IF ~disable_thought_logging /\ console_raises
                THEN /\ session' = [processed EXCEPT !.updated_at = now']
                     /\ result' = [kind |-> "Exception", isError |-> TRUE,
                                   errors |-> <<>>, processed |-> <<>>]
                ELSE /\ session' = [processed EXCEPT !.updated_at = now']
                     /\ result' = [kind |-> "ok", isError |-> FALSE, errors |-> <<>>,
                                   processed |-> <<thought_data.thought_number,
                                                   thought_data.total_thoughts>>]
       ELSE /\ session' = [session EXCEPT !.updated_at = now']
            /\ result' = [kind |-> "ValidationError", isError |-> TRUE,
                          errors |-> ValidationErrors(a), processed |-> <<>>]
    /\ regular_run' =
          IF regular_run.all_regular /\ ValidationErrors(a) = <<>> /\ IsRegularInput(a)
          THEN [all_regular |-> TRUE,
                records |-> Append(regular_run.records, ThoughtData(a))]
          ELSE [all_regular |-> FALSE, records |-> <<>>]

\* call_tool("think", a), one tick of the clock after the previous call.
\* console_raises: the console raises when _log_main_thought or
\* _log_branch_thought prints to it. The exception leaves _process_thought
\* after the session was changed and is caught by "except Exception".
call_tool(a, console_raises) ==
    /\ now' = now + 1
    /\ arguments' = a
    /\ previous' = session
    /\ reply' = NoReply
    /\ UNCHANGED <<disable_thought_logging, event_loop, fastmcp>>
    /\ IF ValidationErrors(a) = <<>>
       THEN LET thought_data == ThoughtData(a)
                processed == _process_thought(session, thought_data)
            IN  IF ~disable_thought_logging /\ console_raises
                THEN /\ session' = processed
                     /\ result' = [kind |-> "Exception", isError |-> TRUE,
                                   errors |-> <<>>, processed |-> <<>>]
                ELSE /\ session' = [processed EXCEPT !.updated_at = now']
                     /\ result' = [kind |-> "ok", isError |-> FALSE, errors |-> <<>>,
                                   processed |-> <<thought_data.thought_number,
                                                   thought_data.total_thoughts>>]
       ELSE /\ session' = session
            /\ result' = [kind |-> "ValidationError", isError |-> TRUE,
                          errors |-> ValidationErrors(a), processed |-> <<>>]
    /\ regular_run' =
          IF regular_run.all_regular /\ ValidationErrors(a) = <<>> /\ IsRegularInput(a)
          THEN [all_regular |-> TRUE,
                records |-> Append(regular_run.records, ThoughtData(a))]
          ELSE [all_regular |-> FALSE, records |-> <<>>]

\* the URIs of the resources, as uri.split("/")
HistoryUri == <<"thoughts:", "", "history">>

SummaryUri == <<"thoughts:", "", "summary">>

BranchesUri == <<"thoughts:", "", "branches">>

SessionUri == <<"thoughts:", "", "session">>

\* "thoughts://branches/" + branch_id
BranchUri(branch_id) == BranchesUri \o split(branch_id)

\* uri.startswith("thoughts://branches/")
starts_with_branches(uri) == Len(uri) >= 4 /\ SubSeq(uri, 1, 3) = BranchesUri

\* mutant: the origin is taken from the latest record of the branch
branches_info_last_origin(s) ==
    [branch_id \in DOMAIN s.branches |->
        [branch_id |-> branch_id,
         branch_from_thought |->
            IF TruthyInt(last(s.branches[branch_id]).branch_from_thought)
            THEN last(s.branches[branch_id]).branch_from_thought[1] ELSE 0,
         thoughts |-> s.branches[branch_id],
         created_at |-> None]]

\* the BranchInfo dicts of the branch overview, by branch identifier
branches_info(s) ==
    [branch_id \in DOMAIN s.branches |->
        [branch_id |-> branch_id,
         branch_from_thought |->
            IF TruthyInt(s.branches[branch_id][1].branch_from_thought)
            THEN s.branches[branch_id][1].branch_from_thought[1] ELSE 0,
         thoughts |-> s.branches[branch_id],
         created_at |-> None]]

\* [thought.to_display_dict() for thought in thoughts]
display_dicts(thoughts) == [i \in 1..Len(thoughts) |-> to_display_dict(thoughts[i])]

\* what read_resource(uri) returns or raises on the session s
resource_of(s, uri) ==
    IF uri = HistoryUri
    THEN [kind |-> "history", contents |-> display_dicts(s.main_thoughts)]
    ELSE IF uri = SummaryUri
    THEN [kind |-> "summary", contents |-> get_summary(s)]
    ELSE IF uri = BranchesUri
    THEN IF \E branch_id \in DOMAIN s.branches : s.branches[branch_id] = <<>>
         THEN \* thoughts[0] of an empty list
              [kind |-> "IndexError", contents |-> <<"list index out of range">>]
         ELSE [kind |-> "branches", contents |-> branches_info(s)]
    ELSE IF uri = SessionUri
    THEN [kind |-> "session", contents |-> s]
    ELSE IF starts_with_branches(uri)
    THEN LET branch_id == last(uri)
         IN  IF branch_id \in DOMAIN s.branches
             THEN [kind |-> "branch", contents |-> display_dicts(s.branches[branch_id])]
             ELSE [kind |-> "ValueError", contents |-> <<"Branch not found", branch_id>>]
    ELSE [kind |-> "ValueError", contents |-> <<"Unknown resource">>]

\* read_resource(uri); found is history: the session as the read found it
read_resource(uri) ==
    /\ reply' = [kind |-> resource_of(session, uri).kind,
                 uri |-> uri,
                 contents |-> resource_of(session, uri).contents,
                 found |-> session]
    /\ UNCHANGED <<session, now, arguments, result, disable_thought_logging,
                   previous, regular_run, event_loop, fastmcp>>

(***************************************************************************)
(* The handlers as tasks of the event loop. A handler is a coroutine: the  *)
(* loop runs it from the point where it stands to its next suspension or   *)
(* to its return, and runs no other task in between.                       *)
(***************************************************************************)
\* the task the server creates for a request
Task(handler, input) ==
    [handler |-> handler, input |-> input, pc |-> "pending",
     revision_index |-> 0, returned |-> <<>>, found |-> <<>>]

\* mutant: the coroutine suspends where _handle_revision has read the
\* length of the main sequence and has not written yet
suspends_after_length_check(pc) == pc \in {"overwrite", "append"}

\* mutant: the coroutine suspends between the overwrite and the truncation
suspends_before_truncate(pc) == pc = "truncate"

\* the coroutine suspends before the statement at pc. call_tool awaits
\* _process_thought only, a coroutine without an await of its own that
\* calls the plain functions _handle_revision and _log_*; read_resource
\* has no await. No statement of a handler is preceded by a suspension.
suspends(pc) == FALSE

\* one statement of call_tool, _process_thought or _handle_revision for
\* the task t on the session s at the time clock: the session and the task
\* after it
call_tool_statement(s, t, clock) ==
    IF t.pc = "pending"
    THEN IF ValidationErrors(t.input) # <<>>
         THEN [session |-> s,
               task |-> [t EXCEPT !.pc = "done",
                           !.returned = [kind |-> "ValidationError",
                                         isError |-> TRUE,
                                         errors |-> ValidationErrors(t.input),
                                         processed |-> <<>>]]]
         ELSE LET thought_data == ThoughtData(t.input)
              IN  IF is_branch_thought(thought_data)
                  THEN [session |-> [s EXCEPT !.branches =
                                        branch_append(s.branches, thought_data)],
                        task |-> [t EXCEPT !.pc = "stamp"]]
                  ELSE IF is_revision_thought(thought_data)
                          /\ thought_data.revises_thought[1] <= Len(s.main_thoughts)
                  THEN [session |-> s,
                        task |-> [t EXCEPT !.pc = "overwrite",
                                    !.revision_index =
                                        thought_data.revises_thought[1] - 1]]
                  ELSE [session |-> s, task |-> [t EXCEPT !.pc = "append"]]
    ELSE IF t.pc = "overwrite"
    THEN IF t.revision_index + 1 <= Len(s.main_thoughts)
         THEN [session |-> [s EXCEPT !.main_thoughts[t.revision_index + 1] =
                                        ThoughtData(t.input)],
               task |-> [t EXCEPT !.pc = "truncate"]]
         ELSE \* IndexError, caught by "except Exception"
              [session |-> s,
               task |-> [t EXCEPT !.pc = "done",
                           !.returned = [kind |-> "Exception", isError |-> TRUE,
                                         errors |-> <<>>, processed |-> <<>>]]]
    ELSE IF t.pc = "truncate"
    THEN [session |-> [s EXCEPT !.main_thoughts =
                          slice_to(s.main_thoughts, t.revision_index + 1)],
          task |-> [t EXCEPT !.pc = "stamp"]]
    ELSE IF t.pc = "append"
    THEN [session |-> [s EXCEPT !.main_thoughts =
                          append(s.main_thoughts, ThoughtData(t.input))],
          task |-> [t EXCEPT !.pc = "stamp"]]
    ELSE \* "stamp": updated_at = datetime.now(), then the success result
         [session |-> [s EXCEPT !.updated_at = clock + 1],
          task |-> [t EXCEPT !.pc = "done",
                      !.returned = [kind |-> "ok", isError |-> FALSE,
                                    errors |-> <<>>,
                                    processed |->
                                       <<ThoughtData(t.input).thought_number,
                                         ThoughtData(t.input).total_thoughts>>]]]

\* the event loop after the task i came to stand as the record task
scheduled(i, task) ==
    [tasks |-> [event_loop.tasks EXCEPT ![i] = task],
     running |-> IF task.pc = "done" \/ suspends(task.pc) THEN 0 ELSE i,
     finished |-> IF task.pc = "done"
                  THEN Append(event_loop.finished, i)
                  ELSE event_loop.finished]

\* a request arrives while no handler runs: the server creates its task
receive(handler, input) ==
    /\ Len(event_loop.tasks) < MaxTasks
    /\ event_loop.running = 0
    /\ event_loop' = [event_loop EXCEPT !.tasks = Append(@, Task(handler, input))]
    /\ UNCHANGED <<session, now, arguments, result, reply,
                   disable_thought_logging, previous, regular_run, fastmcp>>

\* the loop runs the next statement of the call_tool task i: the task that
\* runs goes on, and when none runs any task that has not returned is
\* started or resumed
call_tool_step(i) ==
    /\ event_loop.tasks[i].handler = "call_tool"
    /\ event_loop.tasks[i].pc # "done"
    /\ event_loop.running \in {0, i}
    /\ LET after == call_tool_statement(session, event_loop.tasks[i], now)
       IN  /\ session' = after.session
           /\ now' = IF event_loop.tasks[i].pc = "stamp" THEN now + 1 ELSE now
           /\ event_loop' = scheduled(i, after.task)
    /\ UNCHANGED <<arguments, result, reply, disable_thought_logging,
                   previous, regular_run, fastmcp>>

\* the loop runs the read_resource task i, which has no await: it returns
\* the contents of the resource; found is history, the session as it was read
read_resource_step(i) ==
    /\ event_loop.tasks[i].handler = "read_resource"
    /\ event_loop.tasks[i].pc # "done"
    /\ event_loop.running = 0
    /\ event_loop' =
          scheduled(i, [event_loop.tasks[i] EXCEPT
                           !.pc = "done",
                           !.returned = resource_of(session, event_loop.tasks[i].input),
                           !.found = session])
    /\ UNCHANGED <<session, now, arguments, result, reply,
                   disable_thought_logging, previous, regular_run, fastmcp>>

(***************************************************************************)
(* The server of server_fastmcp.py.                                        *)
(***************************************************************************)
\* the keyword arguments that think passes to ThoughtData: every field,
\* an omitted isRevision and needsMoreThoughts as False, every other
\* omitted optional field as None
think_arguments(a) ==
    [k \in FieldAliases |->
        IF k \in DOMAIN a THEN a[k]
        ELSE IF k \in {"isRevision", "needsMoreThoughts"} THEN Some(FALSE)
        ELSE None]

\* think(**a) of server_fastmcp.py, with the console printing without error
think(a) ==
    /\ fastmcp' =
          LET errors == ValidationErrors(think_arguments(a))
          IN  IF errors = <<>>
              THEN LET thought_data == ThoughtData(think_arguments(a))
                       processed == _process_thought(fastmcp.session, thought_data)
                   IN  [session |-> [processed EXCEPT !.updated_at = now],
                        result |-> [kind |-> "ok", isError |-> FALSE,
                                    errors |-> <<>>,
                                    processed |-> <<thought_data.thought_number,
                                                    thought_data.total_thoughts>>],
                        calls |-> fastmcp.calls + 1]
              ELSE [session |-> fastmcp.session,
                    result |-> [kind |-> "ValidationError", isError |-> TRUE,
                                errors |-> errors, processed |-> <<>>],
                    calls |-> fastmcp.calls + 1]
    /\ UNCHANGED <<session, now, arguments, result, reply,
                   disable_thought_logging, previous, regular_run, event_loop>>

(***************************************************************************)
(* Inputs and specifications.                                              *)
(***************************************************************************)
\* isRevision and revisesThought as the calls of Spec set them
RevisionSettings ==
    {<<Absent, Absent>>,
     <<Given(Some(TRUE)), Given(Some(1))>>,
     <<Given(Some(TRUE)), Given(Some(2))>>,
     <<Absent, Given(Some(1))>>}

\* branchFromThought and branchId as the calls of Spec set them
BranchSettings ==
    {<<Absent, Absent>>,
     <<Given(Some(1)), Absent>>,
     <<Given(Some(1)), Given(Some(""))>>,
     <<Given(Some(1)), Given(Some("X"))>>,
     <<Given(Some(1)), Given(Some("Y"))>>}

\* the think calls of Spec
Inputs ==
    { Args([thought |-> t, thoughtNumber |-> Given(Some(1)),
            totalThoughts |-> Given(Some(1)),
            nextThoughtNeeded |-> Given(Some(TRUE)),
            isRevision |-> r[1], revisesThought |-> r[2],
            branchFromThought |-> b[1], branchId |-> b[2]]) :
        t \in {Given(Some("a")), Given(Some("b"))},
        r \in RevisionSettings, b \in BranchSettings }

\* a session of up to MaxCalls think calls
Next == now < MaxCalls /\ \E a \in Inputs : call_tool(a, FALSE)

Spec == Init /\ [][Next]_vars

\* the think calls of GateSpec: every field omitted, null, or any value of
\* a small range, and possibly an unknown field
GateNumbers == {Absent} \cup {Given(Some(n)) : n \in 0..MaxNum}

GateOptionalNumbers == GateNumbers \cup {Given(None)}

GateInputs ==
    { Args([thought |-> t, thoughtNumber |-> n, totalThoughts |-> tt,
            nextThoughtNeeded |-> nx, isRevision |-> ir, revisesThought |-> rt,
            branchFromThought |-> bf, branchId |-> bi, extra |-> ex]) :
        t \in {Absent, Given(None), Given(Some("")), Given(Some("a"))},
        n \in GateNumbers, tt \in GateNumbers,
        nx \in {Absent, Given(Some(TRUE))},
        ir \in {Absent, Given(None), Given(Some(TRUE)), Given(Some(FALSE))},
        rt \in GateOptionalNumbers, bf \in GateOptionalNumbers,
        bi \in {Absent, Given(None), Given(Some("")), Given(Some("X"))},
        ex \in {Absent, Given(Some(TRUE))} }

\* the first think call made to a fresh server
GateNext == result.kind = "none" /\ \E a \in GateInputs : call_tool(a, FALSE)

GateSpec == Init /\ [][GateNext]_vars

\* the think calls of ConsoleSpec, as thought, isRevision, revisesThought,
\* branchFromThought, branchId and an unknown field: a regular thought, a
\* revision, a branch thought, and one input for each of four broken rules
ConsoleSettings ==
    {<<Given(Some("a")), Absent, Absent, Absent, Absent, Absent>>,
     <<Given(Some("b")), Given(Some(TRUE)), Given(Some(1)), Absent, Absent, Absent>>,
     <<Given(Some("a")), Absent, Absent, Given(Some(1)), Given(Some("X")), Absent>>,
     <<Given(Some("a")), Absent, Absent, Absent, Absent, Given(Some(TRUE))>>,
     <<Given(Some("a")), Absent, Absent, Absent, Given(Some("X")), Absent>>,
     <<Given(Some("")), Absent, Absent, Absent, Absent, Absent>>,
     <<Given(Some("a")), Absent, Given(Some(1)), Absent, Absent, Absent>>}

ConsoleInputs ==
    { Args([thought |-> c[1], thoughtNumber |-> Given(Some(1)),
            totalThoughts |-> Given(Some(1)),
            nextThoughtNeeded |-> Given(Some(TRUE)),
            isRevision |-> c[2], revisesThought |-> c[3],
            branchFromThought |-> c[4], branchId |-> c[5], extra |-> c[6]]) :
        c \in ConsoleSettings }

\* a session of up to MaxCalls think calls on a console that may raise
ConsoleNext ==
    now < MaxCalls /\ \E a \in ConsoleInputs, console_raises \in BOOLEAN :
                         call_tool(a, console_raises)

ConsoleSpec == ConsoleInit /\ [][ConsoleNext]_vars

\* the think calls of QuerySpec, as nextThoughtNeeded, isRevision,
\* revisesThought, branchFromThought and branchId
QuerySettings ==
    {<<TRUE, Absent, Absent, Absent, Absent>>,
     <<FALSE, Absent, Absent, Absent, Absent>>,
     <<TRUE, Given(Some(TRUE)), Given(Some(1)), Absent, Absent>>,
     <<TRUE, Given(Some(TRUE)), Given(Some(2)), Absent, Absent>>,
     <<FALSE, Absent, Absent, Given(Some(1)), Given(Some("Y"))>>,
     <<TRUE, Absent, Absent, Given(Some(2)), Given(Some("Y"))>>,
     <<TRUE, Given(Some(TRUE)), Given(Some(1)), Given(Some(1)), Given(Some("X/Y"))>>}

QueryInputs ==
    { Args([thought |-> Given(Some("a")), thoughtNumber |-> Given(Some(1)),
            totalThoughts |-> Given(Some(1)),
            nextThoughtNeeded |-> Given(Some(q[1])),
            isRevision |-> q[2], revisesThought |-> q[3],
            branchFromThought |-> q[4], branchId |-> q[5]]) :
        q \in QuerySettings }

\* the branch identifiers that QuerySpec asks for
QueryBranchIds == {"", "Y", "X/Y", "Z"}

\* the resources that QuerySpec reads
QueryUris ==
    {HistoryUri, SummaryUri, BranchesUri, SessionUri, <<"thoughts:", "", "unknown">>}
    \cup {BranchUri(id) : id \in QueryBranchIds}

\* think calls and resource reads in any order
QueryNext ==
    \/ now < MaxCalls /\ \E a \in QueryInputs : call_tool(a, FALSE)
    \/ \E uri \in QueryUris : read_resource(uri)

QuerySpec == Init /\ [][QueryNext]_vars

\* the think calls of OrphanSpec, as isRevision, revisesThought,
\* branchFromThought and branchId: a regular thought, two revisions and a
\* thought of a branch that begins at position 2
OrphanSettings ==
    {<<Absent, Absent, Absent, Absent>>,
     <<Given(Some(TRUE)), Given(Some(1)), Absent, Absent>>,
     <<Given(Some(TRUE)), Given(Some(2)), Absent, Absent>>,
     <<Absent, Absent, Given(Some(2)), Given(Some("X"))>>}

OrphanInputs ==
    { Args([thought |-> Given(Some("a")), thoughtNumber |-> Given(Some(1)),
            totalThoughts |-> Given(Some(1)),
            nextThoughtNeeded |-> Given(Some(TRUE)),
            isRevision |-> o[1], revisesThought |-> o[2],
            branchFromThought |-> o[3], branchId |-> o[4]]) :
        o \in OrphanSettings }

\* a session of up to MaxOrphanCalls think calls
OrphanNext == now < MaxOrphanCalls /\ \E a \in OrphanInputs : call_tool(a, FALSE)

OrphanSpec == Init /\ [][OrphanNext]_vars

\* thoughtNumber and totalThoughts as the calls of NumberSpec set them:
\* repeated, skipped and out of order
NumberPairs == {p \in (1..MaxNum) \X (1..MaxNum) : p[1] <= p[2]}

\* the think calls of NumberSpec: a regular thought, a revision and a branch
\* thought, each with every pair of numbers
NumberInputs ==
    { Args([thought |-> Given(Some("a")), thoughtNumber |-> Given(Some(p[1])),
            totalThoughts |-> Given(Some(p[2])),
            nextThoughtNeeded |-> Given(Some(TRUE)),
            isRevision |-> k[1], revisesThought |-> k[2],
            branchFromThought |-> k[3], branchId |-> k[4]]) :
        p \in NumberPairs,
        k \in {<<Absent, Absent, Absent, Absent>>,
               <<Given(Some(TRUE)), Given(Some(1)), Absent, Absent>>,
               <<Absent, Absent, Given(Some(1)), Given(Some("X"))>>} }

\* a session of up to MaxCalls think calls
NumberNext == now < MaxCalls /\ \E a \in NumberInputs : call_tool(a, FALSE)

NumberSpec == Init /\ [][NumberNext]_vars

\* the think calls of AsyncSpec: two regular thoughts, a revision of the
\* first and of the second thought, and a branch thought
AsyncSettings ==
    {<<"a", Absent, Absent, Absent, Absent>>,
     <<"b", Absent, Absent, Absent, Absent>>,
     <<"c", Given(Some(TRUE)), Given(Some(1)), Absent, Absent>>,
     <<"d", Given(Some(TRUE)), Given(Some(2)), Absent, Absent>>,
     <<"e", Absent, Absent, Given(Some(1)), Given(Some("X"))>>}

AsyncInputs ==
    { Args([thought |-> Given(Some(c[1])), thoughtNumber |-> Given(Some(1)),
            totalThoughts |-> Given(Some(1)),
            nextThoughtNeeded |-> Given(Some(TRUE)),
            isRevision |-> c[2], revisesThought |-> c[3],
            branchFromThought |-> c[4], branchId |-> c[5]]) :
        c \in AsyncSettings }

\* the resources read in AsyncSpec
AsyncUris == {HistoryUri, SummaryUri, BranchesUri, SessionUri}

\* up to MaxTasks requests in flight on the event loop of one server
AsyncNext ==
    \/ \E a \in AsyncInputs : receive("call_tool", a)
    \/ \E uri \in AsyncUris : receive("read_resource", uri)
    \/ \E i \in 1..Len(event_loop.tasks) : call_tool_step(i)
    \/ \E i \in 1..Len(event_loop.tasks) : read_resource_step(i)

AsyncSpec == Init /\ [][AsyncNext]_vars

\* the think calls of AgreeSpec, as isRevision, revisesThought,
\* branchFromThought and branchId, each omitted or given with a value: a
\* regular thought, isRevision false, two revisions, isRevision true alone,
\* revisesThought alone, a branch thought, an empty branchId, a branchId
\* alone
AgreeSettings ==
    {<<Absent, Absent, Absent, Absent>>,
     <<Given(Some(FALSE)), Absent, Absent, Absent>>,
     <<Given(Some(TRUE)), Given(Some(1)), Absent, Absent>>,
     <<Given(Some(TRUE)), Given(Some(2)), Absent, Absent>>,
     <<Given(Some(TRUE)), Absent, Absent, Absent>>,
     <<Absent, Given(Some(1)), Absent, Absent>>,
     <<Absent, Absent, Given(Some(1)), Given(Some("X"))>>,
     <<Absent, Absent, Given(Some(1)), Given(Some(""))>>,
     <<Absent, Absent, Absent, Given(Some("X"))>>}

AgreeInputs ==
    { Args([thought |-> Given(Some(t)), thoughtNumber |-> Given(Some(1)),
            totalThoughts |-> Given(Some(1)),
            nextThoughtNeeded |-> Given(Some(TRUE)),
            isRevision |-> c[1], revisesThought |-> c[2],
            branchFromThought |-> c[3], branchId |-> c[4]]) :
        t \in {"a", "b"}, c \in AgreeSettings }

\* the same think calls made to both servers: each input goes to the
\* server of server.py and then to the server of server_fastmcp.py
AgreeNext ==
    \/ /\ fastmcp.calls = now
       /\ now < MaxCalls
       /\ \E a \in AgreeInputs : call_tool(a, FALSE)
    \/ /\ fastmcp.calls < now
       /\ think(arguments)

AgreeSpec == Init /\ [][AgreeNext]_vars

(***************************************************************************)
(* Properties.                                                             *)
(***************************************************************************)
\* a think call has been made: arguments, result and previous are its
\* arguments, its result and the session it found
Called == result.kind # "none"

\* the arguments pass the validation
Validated(a) == ValidationErrors(a) = <<>>

\* the record has a non-empty branch_id together with a branch_from_thought
NamesBranch(r) ==
    r.branch_id # None /\ r.branch_id[1] # "" /\ r.branch_from_thought # None

\* the record has both a branch_id (any string) and a branch_from_thought
BothBranchFieldsPresent(r) == r.branch_id # None /\ r.branch_from_thought # None

\* the record is a revision of position k
Revises(r, k) == r.is_revision = Some(TRUE) /\ r.revises_thought = Some(k)

\* the list that branches holds for id, empty when there is none
BranchOf(branches, id) == IF id \in DOMAIN branches THEN branches[id] ELSE <<>>

\* what a revision of main by r is to produce: overwrite-and-truncate in
\* range, append beyond the end
Revised(main, r) ==
    IF r.revises_thought[1] <= Len(main)
    THEN SubSeq(main, 1, r.revises_thought[1] - 1) \o <<r>>
    ELSE main \o <<r>>

\* the session is as __init__ left it
Untouched == session.main_thoughts = <<>> /\ DOMAIN session.branches = {}

\* C1: a validated non-branch revision of position k, 1 <= k <= L, leaves
\* the main sequence with length exactly k and the new record as its k-th
\* entry; nothing after position k survives.
C1_RevisionInRange ==
    Called /\ Validated(arguments) =>
        LET r == ThoughtData(arguments)
        IN  \A k \in 1..Len(previous.main_thoughts) :
               ~NamesBranch(r) /\ Revises(r, k) =>
                   /\ result.kind = "ok"
                   /\ Len(session.main_thoughts) = k
                   /\ session.main_thoughts[k] = r

\* C1 witness: a revision of position 1 was applied to a main sequence of
\* length 2; the main sequence is the revision record alone.
C1_Witness ==
    /\ result.kind = "ok"
    /\ Revises(ThoughtData(arguments), 1)
    /\ ~NamesBranch(ThoughtData(arguments))
    /\ Len(previous.main_thoughts) = 2
    /\ session.main_thoughts = <<ThoughtData(arguments)>>

\* C2: a validated non-branch revision of position k > L (L = 0 included)
\* succeeds and appends the record at the end of the main sequence.
C2_RevisionOutOfRange ==
    Called /\ Validated(arguments) =>
        LET r == ThoughtData(arguments)
        IN  (/\ ~NamesBranch(r)
             /\ r.is_revision = Some(TRUE)
             /\ r.revises_thought # None
             /\ r.revises_thought[1] > Len(previous.main_thoughts)) =>
                   /\ result.kind = "ok"
                   /\ session.main_thoughts = previous.main_thoughts \o <<r>>

\* C2 witness: a revision of position 2 was appended to a main sequence of
\* length 1, which a revision of position 1 had started from empty.
C2_Witness ==
    /\ result.kind = "ok"
    /\ Revises(ThoughtData(arguments), 2)
    /\ ~NamesBranch(ThoughtData(arguments))
    /\ now = 2
    /\ Len(previous.main_thoughts) = 1
    /\ previous.main_thoughts[1].revises_thought = Some(1)
    /\ session.main_thoughts = previous.main_thoughts \o <<ThoughtData(arguments)>>

\* C3: N regular thoughts submitted one after another to a fresh session
\* give a main sequence of length N holding them in submission order.
C3_RegularThoughtsInOrder ==
    regular_run.all_regular =>
        /\ Len(session.main_thoughts) = now
        /\ session.main_thoughts = regular_run.records

\* C3 witness: three regular thoughts, not all alike, were submitted.
C3_Witness ==
    /\ regular_run.all_regular
    /\ Len(regular_run.records) = 3
    /\ regular_run.records[1] # regular_run.records[2]
    /\ regular_run.records[2] # regular_run.records[3]

\* C4: a validated thought with a non-empty branchId X and a branchOrigin
\* leaves the main sequence as it was and is appended at the end of
\* branches[X].
C4_BranchThoughtNotInMain ==
    Called /\ Validated(arguments) =>
        LET r == ThoughtData(arguments)
        IN  NamesBranch(r) =>
               /\ result.kind = "ok"
               /\ session.main_thoughts = previous.main_thoughts
               /\ r.branch_id[1] \in DOMAIN session.branches
               /\ session.branches[r.branch_id[1]] =
                     BranchOf(previous.branches, r.branch_id[1]) \o <<r>>

\* C4 witness: the first thought of branch X was submitted to a session
\* with one main thought; the main sequence is as it was.
C4_Witness ==
    /\ result.kind = "ok"
    /\ NamesBranch(ThoughtData(arguments))
    /\ Len(previous.main_thoughts) = 1
    /\ session.main_thoughts = previous.main_thoughts
    /\ DOMAIN previous.branches = {}
    /\ session.branches["X"] = <<ThoughtData(arguments)>>

\* C5: a branch comes into being exactly at the first branch thought that
\* names an unseen branchId; every later branch thought of that id is
\* appended to the same list; no other call creates, removes or changes a
\* branch. So branches[X] is the branch thoughts of X in arrival order.
C5_BranchesInArrivalOrder ==
    Called =>
        IF Validated(arguments) /\ NamesBranch(ThoughtData(arguments))
        THEN LET r == ThoughtData(arguments)
                 x == r.branch_id[1]
             IN  /\ DOMAIN session.branches = DOMAIN previous.branches \cup {x}
                 /\ session.branches[x] = BranchOf(previous.branches, x) \o <<r>>
                 /\ \A y \in DOMAIN previous.branches \ {x} :
                       session.branches[y] = previous.branches[y]
        ELSE session.branches = previous.branches

\* C5 witness: a second, different thought of branch X was appended to a
\* session that held one thought of X and one of branch Y.
C5_Witness ==
    /\ now = 3
    /\ result.kind = "ok"
    /\ DOMAIN previous.branches = {"X", "Y"}
    /\ Len(previous.branches["X"]) = 1
    /\ Len(session.branches["Y"]) = 1
    /\ session.branches["X"] = previous.branches["X"] \o <<ThoughtData(arguments)>>
    /\ session.branches["X"][1] # session.branches["X"][2]

\* C6 as stated: a validated record with branchId and branchOrigin present
\* that is also a revision of a position k <= L is appended to the named
\* branch only; the main sequence is left as it was.
C6_BranchBeforeRevision_AsStated ==
    Called /\ Validated(arguments) =>
        LET r == ThoughtData(arguments)
        IN  \A k \in 1..Len(previous.main_thoughts) :
               BothBranchFieldsPresent(r) /\ Revises(r, k) =>
                   /\ session.main_thoughts = previous.main_thoughts
                   /\ r.branch_id[1] \in DOMAIN session.branches
                   /\ session.branches[r.branch_id[1]] =
                         BranchOf(previous.branches, r.branch_id[1]) \o <<r>>

\* C6 amended: the same for a record whose branchId is a non-empty string.
C6_BranchBeforeRevision ==
    Called /\ Validated(arguments) =>
        LET r == ThoughtData(arguments)
        IN  \A k \in 1..Len(previous.main_thoughts) :
               NamesBranch(r) /\ Revises(r, k) =>
                   /\ session.main_thoughts = previous.main_thoughts
                   /\ r.branch_id[1] \in DOMAIN session.branches
                   /\ session.branches[r.branch_id[1]] =
                         BranchOf(previous.branches, r.branch_id[1]) \o <<r>>

\* C6 witness: a thought of branch X that is also a revision of position 1
\* was submitted to a main sequence of length 2, which is as it was.
C6_Witness ==
    /\ result.kind = "ok"
    /\ NamesBranch(ThoughtData(arguments))
    /\ Revises(ThoughtData(arguments), 1)
    /\ Len(previous.main_thoughts) = 2
    /\ session.main_thoughts = previous.main_thoughts
    /\ session.branches["X"] = <<ThoughtData(arguments)>>

\* C7: a validated record with a branchOrigin and no branchId creates no
\* branch and changes no branch list; it is handled as a revision (when
\* isRevision is set with a revisionTarget) or appended to the main
\* sequence.
C7_OriginWithoutIdIsNoBranch ==
    Called /\ Validated(arguments) =>
        LET r == ThoughtData(arguments)
        IN  r.branch_from_thought # None /\ r.branch_id = None =>
               /\ result.kind = "ok"
               /\ session.branches = previous.branches
               /\ session.main_thoughts =
                     IF r.is_revision = Some(TRUE) /\ r.revises_thought # None
                     THEN Revised(previous.main_thoughts, r)
                     ELSE previous.main_thoughts \o <<r>>

\* C7 witness: a plain thought with a branchOrigin and no branchId was
\* appended to a main sequence of length 1 in a session that has a branch.
C7_Witness ==
    /\ result.kind = "ok"
    /\ Get(arguments, "branchFromThought") = Some(1)
    /\ Get(arguments, "branchId") = None
    /\ Get(arguments, "isRevision") = None
    /\ Len(previous.main_thoughts) = 1
    /\ session.main_thoughts = previous.main_thoughts \o <<ThoughtData(arguments)>>
    /\ DOMAIN session.branches = {"X"}
    /\ session.branches = previous.branches

\* C8: every input with isRevision true and revisionTarget absent (the key
\* omitted or null) is rejected with a ValidationError and produces no
\* Thought Record.
C8_RevisionWithoutTargetRejected ==
    (/\ Called
     /\ Get(arguments, "isRevision") = Some(TRUE)
     /\ Get(arguments, "revisesThought") = None) =>
        result.kind = "ValidationError" /\ Untouched

\* C9: every input with a revisionTarget and with isRevision false or
\* absent is rejected.
C9_TargetWithoutRevisionRejected ==
    (/\ Called
     /\ Get(arguments, "revisesThought") # None
     /\ Get(arguments, "isRevision") # Some(TRUE)) =>
        result.kind = "ValidationError" /\ Untouched

\* C9 witness: an input whose only fault is a revisionTarget without
\* isRevision was rejected for it.
C9_Witness ==
    /\ Get(arguments, "revisesThought") = Some(1)
    /\ "isRevision" \notin DOMAIN arguments
    /\ result.kind = "ValidationError"
    /\ result.errors = <<Err("revisesThought", "value_error")>>

\* the range and required-field rules an input may break
BreaksRangeRule(a) ==
    \/ {"thought", "thoughtNumber", "totalThoughts", "nextThoughtNeeded"}
          \ DOMAIN a # {}
    \/ Get(a, "thought") = Some("")
    \/ Get(a, "thoughtNumber") # None /\ a["thoughtNumber"][1] < 1
    \/ Get(a, "totalThoughts") # None /\ a["totalThoughts"][1] < 1
    \/ /\ Get(a, "thoughtNumber") # None
       /\ Get(a, "totalThoughts") # None
       /\ a["totalThoughts"][1] < a["thoughtNumber"][1]

\* C10: every input with an empty text, a missing required field,
\* sequenceNumber < 1, totalEstimate < 1 or totalEstimate < sequenceNumber
\* is rejected.
C10_RangeRulesRejected ==
    Called /\ BreaksRangeRule(arguments) =>
        result.kind = "ValidationError" /\ Untouched

\* C10 witness: an input whose only fault is totalEstimate < sequenceNumber
\* was rejected for it.
C10_Witness ==
    /\ Get(arguments, "thoughtNumber") = Some(2)
    /\ Get(arguments, "totalThoughts") = Some(1)
    /\ result.kind = "ValidationError"
    /\ result.errors = <<Err("totalThoughts", "value_error")>>

\* C11: every input with a branchId (a string, empty or not) and without a
\* branchOrigin (omitted or null) is rejected.
C11_BranchIdWithoutOriginRejected ==
    (/\ Called
     /\ Get(arguments, "branchId") # None
     /\ Get(arguments, "branchFromThought") = None) =>
        result.kind = "ValidationError" /\ Untouched

\* C11 witness: an input whose only fault is a branchId without a
\* branchOrigin was rejected for it.
C11_Witness ==
    /\ Get(arguments, "branchId") = Some("X")
    /\ "branchFromThought" \notin DOMAIN arguments
    /\ result.kind = "ValidationError"
    /\ result.errors = <<Err("branchId", "value_error")>>

\* C12: every input with a field outside the nine recognized ones is
\* rejected with a validation failure and the session is as it was.
C12_UnknownFieldRejected ==
    Called /\ ~(DOMAIN arguments \subseteq FieldAliases) =>
        /\ result.kind = "ValidationError"
        /\ result.isError
        /\ session = previous

\* C12 witness: an input whose only fault is an unknown field was rejected
\* for it.
C12_Witness ==
    /\ "extra" \in DOMAIN arguments
    /\ result.kind = "ValidationError"
    /\ result.errors = <<Err("extra", "extra_forbidden")>>
    /\ session = previous

\* C13: a think call whose input fails validation leaves the whole session
\* (main sequence, branches, id, createdAt, updatedAt) as it was and returns
\* a failure result that carries the validation errors.
C13_ValidationFailureIsNoOp ==
    Called /\ ~Validated(arguments) =>
        /\ session = previous
        /\ result.isError
        /\ result.kind = "ValidationError"
        /\ result.errors = ValidationErrors(arguments)
        /\ result.errors # <<>>

\* C13 witness: an input with an unknown field was rejected by a session
\* that holds a main thought and a branch and was last updated before.
C13_Witness ==
    /\ result.kind = "ValidationError"
    /\ "extra" \in DOMAIN arguments
    /\ previous.main_thoughts # <<>>
    /\ DOMAIN previous.branches = {"X"}
    /\ previous.updated_at = 2
    /\ now = 3
    /\ session = previous

\* C14: whenever a think call returns a failure result, for any cause, the
\* main sequence and the branches are as they were before the call.
C14_FailureChangesNothing ==
    Called /\ result.isError =>
        /\ session.main_thoughts = previous.main_thoughts
        /\ session.branches = previous.branches

\* C15: in every think call that changes the main sequence or the branches,
\* updatedAt is set to the time of the call.
C15_UpdatedAtRefreshed ==
    (/\ Called
     /\ \/ session.main_thoughts # previous.main_thoughts
        \/ session.branches # previous.branches) =>
        session.updated_at = now

\* the positions of the records of the session s: in the main sequence and
\* in every branch
Positions(s) ==
    {<<"main", "", i>> : i \in 1..Len(s.main_thoughts)}
    \cup UNION {{<<"branch", k, i>> : i \in 1..Len(s.branches[k])} :
                   k \in DOMAIN s.branches}

\* the record of s at the position p
RecordAt(s, p) ==
    IF p[1] = "main" THEN s.main_thoughts[p[3]] ELSE s.branches[p[2]][p[3]]

\* a summary was read and no think call came after it
SummaryRead == reply.kind = "summary"

\* C16: the summary's isComplete is true exactly when the main sequence is
\* non-empty and its last record has continuation = false, whatever the
\* branches hold; the summary that a read returns is that of the session.
C16_IsComplete ==
    LET main == session.main_thoughts
        expected == Len(main) > 0 /\ main[Len(main)].next_thought_needed = FALSE
    IN  /\ get_summary(session).is_complete = expected
        /\ SummaryRead => reply.contents.is_complete = expected

\* C16 witness: the main sequence ends with a record of continuation =
\* false, the latest call added a branch record of continuation = true, and
\* the summary read afterwards is complete.
C16_Witness ==
    /\ SummaryRead
    /\ reply.contents.is_complete
    /\ result.kind = "ok"
    /\ NamesBranch(ThoughtData(arguments))
    /\ ThoughtData(arguments).next_thought_needed
    /\ session.main_thoughts # <<>>

\* C17: the summary's revisionsCount is the number of records now in the
\* main sequence and in the branches whose isRevision is true; a revision
\* that was overwritten or truncated away is not counted.
C17_RevisionsCount ==
    LET expected ==
            Cardinality({p \in Positions(session) :
                            RecordAt(session, p).is_revision = Some(TRUE)})
    IN  /\ get_summary(session).revisions_count = expected
        /\ SummaryRead => reply.contents.revisions_count = expected

\* C17 witness: the main sequence held two revision records, a revision of
\* position 1 replaced them, and the summary read afterwards counts one.
C17_Witness ==
    /\ SummaryRead
    /\ reply.contents.revisions_count = 1
    /\ result.kind = "ok"
    /\ Len(previous.main_thoughts) = 2
    /\ previous.main_thoughts[1].is_revision = Some(TRUE)
    /\ previous.main_thoughts[2].is_revision = Some(TRUE)
    /\ session.main_thoughts = <<ThoughtData(arguments)>>
    /\ DOMAIN session.branches = {}

\* C18: the summary's totalThoughts is the length of the main sequence plus
\* the lengths of all branches, and mainBranchThoughts is the length of the
\* main sequence, both of the session as it is when the summary is read.
C18_Totals ==
    /\ get_summary(session).total_thoughts = Cardinality(Positions(session))
    /\ get_summary(session).main_branch_thoughts = Len(session.main_thoughts)
    /\ SummaryRead =>
          /\ reply.contents.total_thoughts = Cardinality(Positions(session))
          /\ reply.contents.main_branch_thoughts = Len(session.main_thoughts)

\* C18 witness: a summary read of a session with one main thought and two
\* branches of one thought each counts three thoughts, one in the main
\* sequence.
C18_Witness ==
    /\ SummaryRead
    /\ Len(session.main_thoughts) = 1
    /\ DOMAIN session.branches = {"Y", "X/Y"}
    /\ reply.contents.total_thoughts = 3
    /\ reply.contents.main_branch_thoughts = 1

C20_UnknownBranchNotFound ==
    \A id \in QueryBranchIds :
        (/\ reply.kind # "none"
         /\ reply.uri = BranchUri(id)
         /\ id \notin DOMAIN reply.found.branches) =>
            /\ reply.kind = "ValueError"
            /\ session = reply.found

\* C21: the branch overview reports, for every branch identifier of the
\* branches, the branchOrigin of the first record of that branch and the
\* whole sequence of its records; a later record of the branch with another
\* branchOrigin is accepted and leaves the reported origin as it was.
C21_BranchOverview ==
    /\ reply.kind = "branches" =>
          /\ DOMAIN reply.contents = DOMAIN session.branches
          /\ \A id \in DOMAIN session.branches :
                /\ reply.contents[id].branch_id = id
                /\ Some(reply.contents[id].branch_from_thought) =
                      session.branches[id][1].branch_from_thought
                /\ reply.contents[id].thoughts = session.branches[id]
    /\ Called /\ Validated(arguments) /\ NamesBranch(ThoughtData(arguments)) =>
          LET id == ThoughtData(arguments).branch_id[1]
          IN  /\ result.kind = "ok"
              /\ id \in DOMAIN previous.branches =>
                    /\ session.branches[id][1] = previous.branches[id][1]
                    /\ branches_info(session)[id].branch_from_thought =
                          branches_info(previous)[id].branch_from_thought

\* C21 witness: branch Y began with a record of branchOrigin 1, the latest
\* call added a record of branchOrigin 2 to it, and the overview read
\* afterwards reports origin 1 and both records.
C21_Witness ==
    /\ reply.kind = "branches"
    /\ result.kind = "ok"
    /\ ThoughtData(arguments).branch_id = Some("Y")
    /\ ThoughtData(arguments).branch_from_thought = Some(2)
    /\ "Y" \in DOMAIN previous.branches
    /\ previous.branches["Y"][1].branch_from_thought = Some(1)
    /\ reply.contents["Y"].branch_from_thought = 1
    /\ Len(reply.contents["Y"].thoughts) = 2
    /\ reply.contents["Y"].thoughts[2] = ThoughtData(arguments)

\* C22: a revision of a position k <= L, which truncates the main sequence,
\* leaves the branches exactly as they were, also a branch whose branchOrigin
\* is a position that the revision discarded.
C22_RevisionLeavesBranches ==
    Called /\ Validated(arguments) =>
        LET r == ThoughtData(arguments)
        IN  \A k \in 1..Len(previous.main_thoughts) :
               ~NamesBranch(r) /\ Revises(r, k) =>
                   /\ Len(session.main_thoughts) = k
                   /\ session.branches = previous.branches

\* C22 witness: the session held two main thoughts and a branch X that
\* began at position 2; a revision of position 1 discarded position 2 and
\* the branch is as it was.
C22_Witness ==
    /\ result.kind = "ok"
    /\ Revises(ThoughtData(arguments), 1)
    /\ ~NamesBranch(ThoughtData(arguments))
    /\ Len(previous.main_thoughts) = 2
    /\ Len(session.main_thoughts) = 1
    /\ DOMAIN previous.branches = {"X"}
    /\ previous.branches["X"][1].branch_from_thought = Some(2)
    /\ session.branches = previous.branches

\* the record r with its sequenceNumber and totalEstimate replaced by 1
EraseNumbers(r) == [r EXCEPT !.thought_number = 1, !.total_thoughts = 1]

\* the records of the list with their numbers replaced
EraseNumbersOfList(list) == [i \in 1..Len(list) |-> EraseNumbers(list[i])]

\* the main sequence and the branches of s with the numbers of every record
\* replaced
EraseNumbersOfSession(s) ==
    [main_thoughts |-> EraseNumbersOfList(s.main_thoughts),
     branches |-> [k \in DOMAIN s.branches |-> EraseNumbersOfList(s.branches[k])]]

\* C23: the router does not use sequenceNumber or totalEstimate to choose
\* positions. Stated for one call: the session that a valid record leaves,
\* with the numbers of all records replaced, is the session that the record
\* with its numbers replaced leaves on the previous session with the numbers
\* replaced. Two submission sequences that differ only in these numbers are
\* the same once the numbers are replaced, so, call by call, they leave main
\* sequences and branches of the same lengths with the corresponding records
\* at the same positions.
C23_NumbersChooseNoPosition ==
    Called /\ Validated(arguments) =>
        LET erased == _process_thought(
                          [previous EXCEPT
                              !.main_thoughts = EraseNumbersOfSession(previous).main_thoughts,
                              !.branches = EraseNumbersOfSession(previous).branches],
                          EraseNumbers(ThoughtData(arguments)))
        IN  /\ result.kind = "ok"
            /\ EraseNumbersOfSession(session).main_thoughts = erased.main_thoughts
            /\ EraseNumbersOfSession(session).branches = erased.branches

\* C23 witness: the main sequence holds the record of sequenceNumber 2
\* before the record of sequenceNumber 1, in the order they were submitted.
C23_Witness ==
    /\ result.kind = "ok"
    /\ Len(previous.main_thoughts) = 1
    /\ previous.main_thoughts[1].thought_number = 2
    /\ ThoughtData(arguments).thought_number = 1
    /\ session.main_thoughts = previous.main_thoughts \o <<ThoughtData(arguments)>>

\* what call_tool("think", a) returns and leaves on the session s when
\* DISABLE_THOUGHT_LOGGING is "true", so that nothing is printed
SuppressedOutcome(s, a) ==
    IF ValidationErrors(a) = <<>>
    THEN [isError |-> FALSE,
          main_thoughts |-> _process_thought(s, ThoughtData(a)).main_thoughts,
          branches |-> _process_thought(s, ThoughtData(a)).branches]
    ELSE [isError |-> TRUE, main_thoughts |-> s.main_thoughts, branches |-> s.branches]

\* C24: the presentation toggle has no effect on the contract. Stated for
\* one call: whatever the toggle is, a think call returns success or failure
\* and leaves the main sequence and the branches as the server with
\* presentation suppressed does for the same arguments on the same session.
\* The reads depend on the session alone, so two servers that differ in the
\* toggle then agree call by call.
C24_ToggleHasNoEffect ==
    Called =>
        LET suppressed == SuppressedOutcome(previous, arguments)
        IN  /\ result.isError = suppressed.isError
            /\ session.main_thoughts = suppressed.main_thoughts
            /\ session.branches = suppressed.branches

\* C26 as stated: every validated record with a branchId (any string, the
\* empty one included) and a branchOrigin is appended to the branch named by
\* its branchId and is not added to the main sequence.
C26_BranchByPresence_AsStated ==
    Called /\ Validated(arguments) =>
        LET r == ThoughtData(arguments)
        IN  BothBranchFieldsPresent(r) =>
               /\ session.main_thoughts = previous.main_thoughts
               /\ r.branch_id[1] \in DOMAIN session.branches
               /\ last(session.branches[r.branch_id[1]]) = r

\* C26 amended: of the validated records with a branchId and a
\* branchOrigin, those with a non-empty branchId are appended to the branch
\* of that name and not added to the main sequence; those with the empty
\* branchId create no branch, change no branch and go to the main sequence
\* as a revision or a regular thought.
C26_BranchByNonEmptyId ==
    Called /\ Validated(arguments) =>
        LET r == ThoughtData(arguments)
        IN  BothBranchFieldsPresent(r) =>
               IF r.branch_id[1] # ""
               THEN /\ session.main_thoughts = previous.main_thoughts
                    /\ DOMAIN session.branches =
                          DOMAIN previous.branches \cup {r.branch_id[1]}
                    /\ last(session.branches[r.branch_id[1]]) = r
               ELSE /\ session.branches = previous.branches
                    /\ "" \notin DOMAIN session.branches
                    /\ session.main_thoughts =
                          IF r.is_revision = Some(TRUE) /\ r.revises_thought # None
                          THEN Revised(previous.main_thoughts, r)
                          ELSE previous.main_thoughts \o <<r>>

\* C26 witness: a record with the empty branchId and branchOrigin 1 was
\* appended to a main sequence of length 1; the session has branch X only.
C26_Witness ==
    /\ result.kind = "ok"
    /\ ThoughtData(arguments).branch_id = Some("")
    /\ ThoughtData(arguments).branch_from_thought = Some(1)
    /\ ThoughtData(arguments).is_revision = None
    /\ Len(previous.main_thoughts) = 1
    /\ session.main_thoughts = previous.main_thoughts \o <<ThoughtData(arguments)>>
    /\ DOMAIN session.branches = {"X"}

\* the input satisfies every rule of the Validation Gate; an optional field
\* given as null counts as absent
SatisfiesAllRules(a) ==
    /\ DOMAIN a \subseteq FieldAliases
    /\ Get(a, "thought") # None /\ a["thought"][1] # ""
    /\ Get(a, "thoughtNumber") # None /\ a["thoughtNumber"][1] >= 1
    /\ Get(a, "totalThoughts") # None /\ a["totalThoughts"][1] >= 1
    /\ a["totalThoughts"][1] >= a["thoughtNumber"][1]
    /\ Get(a, "nextThoughtNeeded") # None
    /\ Get(a, "revisesThought") # None <=> Get(a, "isRevision") = Some(TRUE)
    /\ Get(a, "revisesThought") # None => a["revisesThought"][1] >= 1
    /\ Get(a, "branchFromThought") # None => a["branchFromThought"][1] >= 1
    /\ Get(a, "branchId") # None => Get(a, "branchFromThought") # None

\* the arguments a without the key isRevision
WithoutIsRevision(a) == [k \in DOMAIN a \ {"isRevision"} |-> a[k]]

\* the number of the three mutations that lead from the session before to
\* the session after with the record r: branch append, overwrite and
\* truncate, append to the main sequence
MutationsApplied(before, after, r) ==
    Cardinality(
       {m \in {"branch", "revise", "append"} :
           \/ /\ m = "branch"
              /\ r.branch_id # None
              /\ after.main_thoughts = before.main_thoughts
              /\ DOMAIN after.branches = DOMAIN before.branches \cup {r.branch_id[1]}
              /\ after.branches[r.branch_id[1]] =
                    BranchOf(before.branches, r.branch_id[1]) \o <<r>>
              /\ \A k \in DOMAIN before.branches \ {r.branch_id[1]} :
                    after.branches[k] = before.branches[k]
           \/ /\ m = "revise"
              /\ r.revises_thought # None
              /\ r.revises_thought[1] <= Len(before.main_thoughts)
              /\ after.branches = before.branches
              /\ after.main_thoughts =
                    SubSeq(before.main_thoughts, 1, r.revises_thought[1] - 1) \o <<r>>
           \/ /\ m = "append"
              /\ after.branches = before.branches
              /\ after.main_thoughts = before.main_thoughts \o <<r>>})

RuleOrder ==
    <<"thought", "thoughtNumber", "totalThoughts", "nextThoughtNeeded",
      "revisesThought", "branchFromThought", "branchId", "extra">>

Rank(loc) == CHOOSE i \in 1..Len(RuleOrder) : RuleOrder[i] = loc

\* the input a breaks the rule of the field loc in a way the gate detects.
\* A revision without a target is detected only when the key revisesThought
\* is given (as null); the comparison of totalThoughts with thoughtNumber
\* and the need of a branchFromThought look at a valid earlier field only.
Breaks(a, loc) ==
    CASE loc = "thought" ->
            "thought" \notin DOMAIN a \/ a["thought"] \in {None, Some("")}
      [] loc = "thoughtNumber" ->
            \/ Get(a, "thoughtNumber") = None
            \/ a["thoughtNumber"][1] < 1
      [] loc = "totalThoughts" ->
            \/ Get(a, "totalThoughts") = None
            \/ a["totalThoughts"][1] < 1
            \/ /\ Get(a, "thoughtNumber") # None
               /\ a["thoughtNumber"][1] >= 1
               /\ a["totalThoughts"][1] < a["thoughtNumber"][1]
      [] loc = "nextThoughtNeeded" -> Get(a, "nextThoughtNeeded") = None
      [] loc = "revisesThought" ->
            /\ "revisesThought" \in DOMAIN a
            /\ \/ a["revisesThought"] # None /\ a["revisesThought"][1] < 1
               \/ a["revisesThought"] # None
                    /\ Get(a, "isRevision") # Some(TRUE)
               \/ a["revisesThought"] = None
                    /\ Get(a, "isRevision") = Some(TRUE)
      [] loc = "branchFromThought" ->
            /\ Get(a, "branchFromThought") # None
            /\ a["branchFromThought"][1] < 1
      [] loc = "branchId" ->
            /\ Get(a, "branchId") # None
            /\ \/ Get(a, "branchFromThought") = None
               \/ a["branchFromThought"][1] < 1
      [] loc = "extra" -> ~(DOMAIN a \subseteq FieldAliases)

\* the fields a ValidationError reports
Reported(errors) == {errors[i].loc : i \in 1..Len(errors)}

Contents(s) == [main_thoughts |-> s.main_thoughts, branches |-> s.branches]

\* the session after the think calls of the tasks order[1], order[2], ...
\* of the event loop were run one at a time on the session s
RECURSIVE one_at_a_time(_, _)
one_at_a_time(s, order) ==
    IF order = <<>> THEN s
    ELSE LET a == event_loop.tasks[order[1]].input
             after == IF Validated(a) THEN _process_thought(s, ThoughtData(a))
                      ELSE s
         IN  one_at_a_time(after, SubSeq(order, 2, Len(order)))

\* the call_tool tasks among the first n finished tasks, in the order in
\* which they returned
ReturnedCalls(n) ==
    SelectSeq(SubSeq(event_loop.finished, 1, n),
              LAMBDA i : event_loop.tasks[i].handler = "call_tool")

\* the position of the task i in the order of return
ReturnedAs(i) ==
    CHOOSE n \in 1..Len(event_loop.finished) : event_loop.finished[n] = i

\* the tasks that stand inside their handler: started and not returned
InsideHandler ==
    {i \in 1..Len(event_loop.tasks) :
        event_loop.tasks[i].pc \notin {"pending", "done"}}

\* C25: with think calls and reads of the history, the summary, the branch
\* overview and the full session in flight together, every read returns
\* the resource of a session between two think calls: the one that the
\* think calls returned before the read leave when run one at a time, which
\* is the complete state after each of them and the complete state before
\* every other one; no task stands inside call_tool when a read runs.
C25_ReadersSeeWholeSteps ==
    \A i \in 1..Len(event_loop.tasks) :
        LET t == event_loop.tasks[i]
        IN  t.handler = "read_resource" /\ t.pc = "done" =>
               LET seen == one_at_a_time(NewSession, ReturnedCalls(ReturnedAs(i) - 1))
               IN  /\ Contents(t.found) = Contents(seen)
                   /\ t.returned.kind # "session" =>
                         t.returned = resource_of(seen, t.input)
                   /\ t.returned.kind = "session" =>
                         Contents(t.returned.contents) = Contents(seen)

\* C25 witness: a read of the history arrived after a regular thought and
\* before a revision of position 1, ran after the revision had returned
\* and returned the history with the revision alone.
C25_Witness ==
    /\ Len(event_loop.tasks) = 3
    /\ event_loop.finished = <<1, 3, 2>>
    /\ event_loop.tasks[1].handler = "call_tool"
    /\ IsRegularInput(event_loop.tasks[1].input)
    /\ event_loop.tasks[2].handler = "read_resource"
    /\ event_loop.tasks[2].input = HistoryUri
    /\ event_loop.tasks[3].handler = "call_tool"
    /\ Get(event_loop.tasks[3].input, "revisesThought") = Some(1)
    /\ event_loop.tasks[2].returned.contents =
          <<to_display_dict(ThoughtData(event_loop.tasks[3].input))>>

\* the orders in which the call_tool tasks of the event loop can be run one
\* at a time
SerialOrders ==
    LET calls == {i \in 1..Len(event_loop.tasks) :
                     event_loop.tasks[i].handler = "call_tool"}
    IN  {order \in [1..Cardinality(calls) -> calls] :
            \A m, n \in DOMAIN order : m # n => order[m] # order[n]}

\* C27: at most one task stands inside call_tool at any time, and when
\* the think calls in flight have all returned the main sequence and the
\* branches are those of running the calls one at a time in some order,
\* namely the order in which they returned, each call with the result it
\* has when run alone.
C27_SubmitsSerialized ==
    /\ Cardinality(InsideHandler) <= 1
    /\ (\A i \in 1..Len(event_loop.tasks) : event_loop.tasks[i].pc = "done") =>
          /\ \E order \in SerialOrders :
                Contents(session) = Contents(one_at_a_time(NewSession, order))
          /\ Contents(session) =
                Contents(one_at_a_time(NewSession,
                                       ReturnedCalls(Len(event_loop.finished))))
          /\ \A i \in 1..Len(event_loop.tasks) :
                event_loop.tasks[i].handler = "call_tool" =>
                    event_loop.tasks[i].returned.kind =
                        IF Validated(event_loop.tasks[i].input)
                        THEN "ok" ELSE "ValidationError"

\* C27 witness: two regular thoughts and a revision of position 2 were in
\* flight; the revision ran between the two thoughts, found one thought and
\* was appended; the three records stand in the order of return.
C27_Witness ==
    /\ Len(event_loop.tasks) = 3
    /\ event_loop.finished = <<1, 3, 2>>
    /\ \A i \in 1..3 : event_loop.tasks[i].handler = "call_tool"
    /\ IsRegularInput(event_loop.tasks[1].input)
    /\ IsRegularInput(event_loop.tasks[2].input)
    /\ Get(event_loop.tasks[3].input, "revisesThought") = Some(2)
    /\ session.main_thoughts = <<ThoughtData(event_loop.tasks[1].input),
                                 ThoughtData(event_loop.tasks[3].input),
                                 ThoughtData(event_loop.tasks[2].input)>>

\* C31: a validated non-branch revision of position k, 1 <= k <= L,
\* leaves the entries at the main positions 1..k-1 as they were before it,
\* in the same order.
C31_RevisionKeepsHead ==
    Called /\ Validated(arguments) =>
        LET r == ThoughtData(arguments)
        IN  \A k \in 1..Len(previous.main_thoughts) :
               ~NamesBranch(r) /\ Revises(r, k) =>
                   /\ Len(session.main_thoughts) >= k - 1
                   /\ \A i \in 1..(k - 1) :
                         session.main_thoughts[i] = previous.main_thoughts[i]

\* C31 witness: a revision of position 2 was applied to a main sequence of
\* length 2 whose first entry is another record; the first entry is as it
\* was and the revision record follows it.
C31_Witness ==
    /\ result.kind = "ok"
    /\ Revises(ThoughtData(arguments), 2)
    /\ ~NamesBranch(ThoughtData(arguments))
    /\ Len(previous.main_thoughts) = 2
    /\ previous.main_thoughts[1] # ThoughtData(arguments)
    /\ session.main_thoughts =
          <<previous.main_thoughts[1], ThoughtData(arguments)>>

\* the list a is the beginning of the list b
IsPrefix(a, b) == Len(a) <= Len(b) /\ SubSeq(b, 1, Len(a)) = a

\* C32: no think call and no read takes a key out of the branches map or
\* removes, reorders or overwrites a record of a branch: every key stays a
\* key and the list a branch had is the beginning of the list it has after
\* the step. It follows for every later state, step by step.
C32_BranchesOnlyGrow ==
    [][\A x \in DOMAIN session.branches :
          /\ x \in DOMAIN session'.branches
          /\ IsPrefix(session.branches[x], session'.branches[x])]_vars

\* C32 witness: branch Y held one record; a revision was submitted to the
\* main sequence, and then a second record of Y was appended after the
\* first.
C32_Witness ==
    /\ result.kind = "ok"
    /\ NamesBranch(ThoughtData(arguments))
    /\ "Y" \in DOMAIN previous.branches
    /\ Len(previous.branches["Y"]) = 1
    /\ Len(previous.main_thoughts) = 1
    /\ Revises(previous.main_thoughts[1], 1)
    /\ session.branches["Y"] = previous.branches["Y"] \o <<ThoughtData(arguments)>>
    /\ session.branches["Y"][1] # session.branches["Y"][2]

\* C33: every list in the branches map holds at least one record, and a
\* read of the branch overview returns the overview, with the first record
\* of every branch read, and never fails.
C33_BranchesNonEmpty ==
    /\ \A x \in DOMAIN session.branches : Len(session.branches[x]) >= 1
    /\ resource_of(session, BranchesUri).kind = "branches"
    /\ reply.uri = BranchesUri =>
          /\ reply.kind = "branches"
          /\ DOMAIN reply.contents = DOMAIN session.branches
          /\ \A x \in DOMAIN reply.contents :
                reply.contents[x].branch_from_thought =
                    session.branches[x][1].branch_from_thought[1]

\* C33 witness: the branch overview was read right after the thought that
\* created branch Y; the branch holds that record and the overview names its
\* origin.
C33_Witness ==
    /\ reply.uri = BranchesUri
    /\ reply.kind = "branches"
    /\ result.kind = "ok"
    /\ DOMAIN previous.branches = {}
    /\ session.branches = [x \in {"Y"} |-> <<ThoughtData(arguments)>>]
    /\ reply.contents["Y"].branch_from_thought =
          ThoughtData(arguments).branch_from_thought[1]

\* C34: every record stored in branches[X] has the branch_id X and a
\* branch_from_thought >= 1, and no record of the main sequence has both a
\* non-empty branch_id and a branch_from_thought.
C34_RecordsInTheirContainer ==
    /\ \A x \in DOMAIN session.branches :
          \A i \in 1..Len(session.branches[x]) :
             LET r == session.branches[x][i]
             IN  /\ r.branch_id = Some(x)
                 /\ r.branch_from_thought # None
                 /\ r.branch_from_thought[1] >= 1
    /\ \A i \in 1..Len(session.main_thoughts) :
          ~NamesBranch(session.main_thoughts[i])

\* C34 witness: the session holds a record of branch X in branches[X] and,
\* in the main sequence, a record with an empty branch_id and a
\* branch_from_thought and a record with a branch_from_thought alone.
C34_Witness ==
    /\ "X" \in DOMAIN session.branches
    /\ session.branches["X"][1].branch_id = Some("X")
    /\ Len(session.main_thoughts) = 2
    /\ session.main_thoughts[1].branch_id = Some("")
    /\ session.main_thoughts[1].branch_from_thought = Some(1)
    /\ session.main_thoughts[2].branch_id = None
    /\ session.main_thoughts[2].branch_from_thought = Some(1)

\* C35: the read of the branch with an identifier that is a key of the
\* branches, an identifier with "/" included, succeeds and returns the
\* records of that branch in their order, never the not-found error and
\* never the records of another branch.
C35_BranchReadReturnsItsBranch ==
    \A id \in QueryBranchIds :
        (/\ reply.kind # "none"
         /\ reply.uri = BranchUri(id)
         /\ id \in DOMAIN reply.found.branches) =>
            /\ reply.kind = "branch"
            /\ reply.contents = display_dicts(reply.found.branches[id])

\* the record r with a false is_revision and a false needs_more_thoughts
\* taken as not given
WithoutFalseFlags(r) ==
    [r EXCEPT !.is_revision = IF TruthyBool(@) THEN @ ELSE None,
              !.needs_more_thoughts = IF TruthyBool(@) THEN @ ELSE None]

\* the main sequence and the branches of s, the false flags taken as not
\* given
AgreedContents(s) ==
    [main_thoughts |->
        [i \in 1..Len(s.main_thoughts) |-> WithoutFalseFlags(s.main_thoughts[i])],
     branches |->
        [x \in DOMAIN s.branches |->
            [i \in 1..Len(s.branches[x]) |-> WithoutFalseFlags(s.branches[x][i])]]]

\* C36: after the same think calls, call_tool of server.py and think of
\* server_fastmcp.py have accepted and rejected the same inputs and hold
\* the same main sequence and the same branches.
C36_ServersAgree ==
    fastmcp.calls = now /\ Called =>
        /\ result.kind = fastmcp.result.kind
        /\ AgreedContents(session) = AgreedContents(fastmcp.session)

====
